---- MODULE Spec2Model ----
(***************************************************************************)
(* Model of src/src/processor.rs: the deposit / withdraw instruction       *)
(* processor of a value-custody account.  An account carries a native      *)
(* balance (lamports), an owner and a data region; the custody account's   *)
(* data is an 8-byte little-endian u64 counter.                            *)
(*                                                                         *)
(* Widths are scaled: a byte has ByteBase values instead of 256, so the    *)
(* 8-byte counter ranges over 0 .. ByteBase^8 - 1 and its overflow is      *)
(* within reach of the model checker.                                      *)
(***************************************************************************)
EXTENDS Integers, Sequences, FiniteSets, TLC

VARIABLES
    accts,            \* key -> [lamports, owner, data]: the ledger's accounts
    overflow_checks,  \* the build: TRUE panics on u64 overflow, FALSE wraps
    last,             \* the last invocation: its inputs and its outcome
    pre,              \* accts as it was before the last invocation
    sumDeposits,      \* ghost: sum of the amounts of successful deposits into custody
    sumWithdrawn,     \* ghost: sum of the amounts moved by successful withdrawals from custody
    steps             \* number of steps taken so far

vars == <<accts, overflow_checks, last, pre, sumDeposits, sumWithdrawn, steps>>

----------------------------------------------------------------------------
(* Program constants                                                       *)

DEPOSIT_ACCOUNT_SIZE == 8

WITHDRAWAL_PERCENTAGE == 10

(* Bounds of the model                                                     *)

\* values of one byte (256 in the build)
ByteBase == 4

\* Rent::minimum_balance(DEPOSIT_ACCOUNT_SIZE), scaled
RentMinimum == 5

\* lamports the payer starts with
PayerFunds == 50000

\* lamports the account of another program starts with
ForeignFunds == 50

\* invocations and external transfers in one behaviour
MaxSteps == 4

----------------------------------------------------------------------------
(* Identities                                                              *)

ProgramId == "program"

SystemProgramId == "system"

OtherProgramId == "other"

Keys == {"payer", "custody", "recipient", "foreign"}

\* the system program's own account, passed as deposit's third account
SystemAccount == "system_program"

----------------------------------------------------------------------------
(* u64 and its little-endian encoding                                      *)

RECURSIVE Pow(_, _)
Pow(b, n) == IF n = 0 THEN 1 ELSE b * Pow(b, n - 1)

\* bytes of a u64: the [..8] slice the counter is read from and written to
U64Bytes == 8

\* number of values of a u64 (2^64 in the build)
U64Modulus == Pow(ByteBase, U64Bytes)

Min(a, b) == IF a <= b THEN a ELSE b

\* u64::to_le_bytes
ToLeBytes(n) == [i \in 1..U64Bytes |-> (n \div Pow(ByteBase, i - 1)) % ByteBase]

RECURSIVE FromLeBytes(_)
\* u64::from_le_bytes
FromLeBytes(bytes) ==
    IF bytes = <<>> THEN 0
    ELSE Head(bytes) + ByteBase * FromLeBytes(Tail(bytes))

\* a u64 addition: the true sum when it fits; otherwise a panic in a build with
\* overflow checks and the wrapped sum in a build without
AddU64(a, b) ==
    IF a + b < U64Modulus THEN [ok |-> TRUE, val |-> a + b]
    ELSE IF overflow_checks THEN [ok |-> FALSE, val |-> a]
    ELSE [ok |-> TRUE, val |-> (a + b) % U64Modulus]

----------------------------------------------------------------------------
(* Outcomes of a handler: the result, the accounts as the handler left     *)
(* them when it returned, and the amount it moved                          *)

Ret(result, A, moved) == [result |-> result, accts |-> A, moved |-> moved]

\* AccountInfo::data_is_empty
data_is_empty(acct) == Len(acct.data) = 0

\* the counter stored in an account's first 8 bytes
CounterOf(acct) == FromLeBytes(SubSeq(acct.data, 1, U64Bytes))

----------------------------------------------------------------------------
(* The system program's instructions, as deposit invokes them              *)

\* system_instruction::create_account, invoked as the Allocation Service:
\* the new address must be unused and the funder must hold the lamports
create_account(A, from, to, lamports, space, owner) ==
    IF A[to].lamports > 0 \/ ~data_is_empty(A[to]) \/ A[to].owner # SystemProgramId
    THEN Ret("AllocationError", A, 0)
    ELSE IF A[from].lamports < lamports
    THEN Ret("AllocationError", A, 0)
    ELSE Ret("Ok",
             [A EXCEPT ![from].lamports = @ - lamports,
                       ![to] = [lamports |-> lamports,
                                owner |-> owner,
                                data |-> [i \in 1..space |-> 0]]],
             0)

\* system_instruction::transfer, invoked as the Transfer Service
transfer(A, from, to, amount) ==
    IF A[from].lamports < amount
    THEN Ret("TransferError", A, 0)
    ELSE IF from # to /\ A[to].lamports + amount >= U64Modulus
    THEN Ret("TransferError", A, 0)
    ELSE LET A1 == [A EXCEPT ![from].lamports = @ - amount]
         IN Ret("Ok", [A1 EXCEPT ![to].lamports = @ + amount], amount)

----------------------------------------------------------------------------
(* The handlers                                                            *)

\* deposit, from the counter update on (lines 55-61)
deposit_update(A, deposit_account, amount) ==
    IF Len(A[deposit_account].data) < U64Bytes
    THEN Ret("Panic", A, 0)
    ELSE LET total_deposited == CounterOf(A[deposit_account])
             sum == AddU64(total_deposited, amount)
         IN IF ~sum.ok
            THEN Ret("Panic", A, 0)
            ELSE Ret("Ok",
                     [A EXCEPT ![deposit_account].data =
                         ToLeBytes(sum.val) \o SubSeq(@, U64Bytes + 1, Len(@))],
                     amount)

\* deposit_transfer without the ? on the transfer's result
deposit_transfer_unchecked(A, payer, deposit_account, amount) ==
    deposit_update(transfer(A, payer, deposit_account, amount).accts,
                   deposit_account, amount)

\* deposit, from the transfer on (lines 45-61)
deposit_transfer(A, payer, deposit_account, amount) ==
    LET t == transfer(A, payer, deposit_account, amount)
    IN IF t.result # "Ok" THEN t
       ELSE deposit_update(t.accts, deposit_account, amount)

\* deposit creating the account with no lamports for rent
deposit_rent_zero(A, accounts, amount) ==
    IF Len(accounts) < 3
    THEN Ret("NotEnoughAccountKeys", A, 0)
    ELSE LET payer == accounts[1]
             deposit_account == accounts[2]
         IN IF data_is_empty(A[deposit_account])
            THEN LET c == create_account(A, payer, deposit_account, 0,
                                         DEPOSIT_ACCOUNT_SIZE, ProgramId)
                 IN IF c.result # "Ok" THEN c
                    ELSE deposit_transfer(c.accts, payer, deposit_account, amount)
            ELSE deposit_transfer(A, payer, deposit_account, amount)

\* deposit that requests the allocation whether or not the data is empty
deposit_always_create(A, accounts, amount) ==
    IF Len(accounts) < 3
    THEN Ret("NotEnoughAccountKeys", A, 0)
    ELSE LET c == create_account(A, accounts[1], accounts[2], RentMinimum,
                                 DEPOSIT_ACCOUNT_SIZE, ProgramId)
         IN IF c.result # "Ok" THEN c
            ELSE deposit_transfer(c.accts, accounts[1], accounts[2], amount)

\* deposit with a positivity check on the amount
deposit_positive_only(A, accounts, amount) ==
    IF Len(accounts) < 3
    THEN Ret("NotEnoughAccountKeys", A, 0)
    ELSE IF amount = 0
    THEN Ret("InvalidArgument", A, 0)
    ELSE IF data_is_empty(A[accounts[2]])
    THEN LET c == create_account(A, accounts[1], accounts[2], RentMinimum,
                                 DEPOSIT_ACCOUNT_SIZE, ProgramId)
         IN IF c.result # "Ok" THEN c
            ELSE deposit_transfer(c.accts, accounts[1], accounts[2], amount)
    ELSE deposit_transfer(A, accounts[1], accounts[2], amount)

\* pub fn deposit
deposit(A, accounts, amount) ==
    IF Len(accounts) < 3
    THEN Ret("NotEnoughAccountKeys", A, 0)
    ELSE LET payer == accounts[1]
             deposit_account == accounts[2]
         IN IF data_is_empty(A[deposit_account])
            THEN LET c == create_account(A, payer, deposit_account, RentMinimum,
                                         DEPOSIT_ACCOUNT_SIZE, ProgramId)
                 IN IF c.result # "Ok" THEN c
                    ELSE deposit_transfer(c.accts, payer, deposit_account, amount)
            ELSE deposit_transfer(A, payer, deposit_account, amount)

\* withdraw_move that moves the lamports and leaves the counter as it was
withdraw_move_stale_counter(A, deposit_account, recipient, total_deposited, withdrawal_amount) ==
    LET w == Min(withdrawal_amount, A[deposit_account].lamports)
        A1 == [A EXCEPT ![deposit_account].lamports = @ - w]
    IN Ret("Ok", [A1 EXCEPT ![recipient].lamports = @ + w], w)

\* withdraw_move that decrements the counter by the amount before the clamp
withdraw_move_preclamp(A, deposit_account, recipient, total_deposited, withdrawal_amount) ==
    LET w == Min(withdrawal_amount, A[deposit_account].lamports)
        A1 == [A EXCEPT ![deposit_account].lamports = @ - w]
    IN Ret("Ok",
           [A1 EXCEPT ![recipient].lamports = @ + w,
                      ![deposit_account].data =
                          ToLeBytes(total_deposited - withdrawal_amount)
                              \o SubSeq(@, U64Bytes + 1, Len(@))],
           w)

\* withdraw_move that credits the recipient with the amount before the clamp
withdraw_move_credit_preclamp(A, deposit_account, recipient, total_deposited, withdrawal_amount) ==
    LET w == Min(withdrawal_amount, A[deposit_account].lamports)
        A1 == [A EXCEPT ![deposit_account].lamports = @ - w]
    IN Ret("Ok",
           [A1 EXCEPT ![recipient].lamports = @ + withdrawal_amount,
                      ![deposit_account].data =
                          ToLeBytes(total_deposited - w)
                              \o SubSeq(@, U64Bytes + 1, Len(@))],
           w)

\* withdraw_move without the clamp to the lamports held
withdraw_move_unclamped(A, deposit_account, recipient, total_deposited, withdrawal_amount) ==
    LET A1 == [A EXCEPT ![deposit_account].lamports = @ - withdrawal_amount]
    IN Ret("Ok",
           [A1 EXCEPT ![recipient].lamports = @ + withdrawal_amount,
                      ![deposit_account].data =
                          ToLeBytes(total_deposited - withdrawal_amount)
                              \o SubSeq(@, U64Bytes + 1, Len(@))],
           withdrawal_amount)

\* withdraw_move that reads both balances before it writes either
withdraw_move_read_first(A, deposit_account, recipient, total_deposited, withdrawal_amount) ==
    LET w == Min(withdrawal_amount, A[deposit_account].lamports)
        A1 == [A EXCEPT ![deposit_account].lamports = A[deposit_account].lamports - w]
    IN Ret("Ok",
           [A1 EXCEPT ![recipient].lamports = A[recipient].lamports + w,
                      ![deposit_account].data =
                          ToLeBytes(total_deposited - w)
                              \o SubSeq(@, U64Bytes + 1, Len(@))],
           w)

\* withdraw, from the clamp on (lines 82-93)
withdraw_move(A, deposit_account, recipient, total_deposited, withdrawal_amount) ==
    LET w == Min(withdrawal_amount, A[deposit_account].lamports)
        A1 == [A EXCEPT ![deposit_account].lamports = @ - w]
        credit == AddU64(A1[recipient].lamports, w)
    IN IF ~credit.ok
       THEN Ret("Panic", A1, 0)
       ELSE Ret("Ok",
                [A1 EXCEPT ![recipient].lamports = credit.val,
                           ![deposit_account].data =
                               ToLeBytes(total_deposited - w)
                                   \o SubSeq(@, U64Bytes + 1, Len(@))],
                w)

\* withdraw without the test of a zero withdrawal amount
withdraw_no_zero_check(A, accounts, signers) ==
    IF Len(accounts) < 2
    THEN Ret("NotEnoughAccountKeys", A, 0)
    ELSE IF A[accounts[1]].owner # ProgramId
    THEN Ret("IncorrectProgramId", A, 0)
    ELSE IF Len(A[accounts[1]].data) < U64Bytes
    THEN Ret("Panic", A, 0)
    ELSE withdraw_move(A, accounts[1], accounts[2], CounterOf(A[accounts[1]]),
                       CounterOf(A[accounts[1]]) \div WITHDRAWAL_PERCENTAGE)

\* withdraw without the ownership test
withdraw_no_owner_check(A, accounts, signers) ==
    IF Len(accounts) < 2
    THEN Ret("NotEnoughAccountKeys", A, 0)
    ELSE IF Len(A[accounts[1]].data) < U64Bytes
    THEN Ret("Panic", A, 0)
    ELSE IF CounterOf(A[accounts[1]]) \div WITHDRAWAL_PERCENTAGE = 0
    THEN Ret("InsufficientFunds", A, 0)
    ELSE withdraw_move(A, accounts[1], accounts[2], CounterOf(A[accounts[1]]),
                       CounterOf(A[accounts[1]]) \div WITHDRAWAL_PERCENTAGE)

\* withdraw that pays only a recipient who signed
withdraw_signed_recipient(A, accounts, signers) ==
    IF Len(accounts) < 2
    THEN Ret("NotEnoughAccountKeys", A, 0)
    ELSE IF A[accounts[1]].owner # ProgramId
    THEN Ret("IncorrectProgramId", A, 0)
    ELSE IF accounts[2] \notin signers
    THEN Ret("MissingRequiredSignature", A, 0)
    ELSE IF Len(A[accounts[1]].data) < U64Bytes
    THEN Ret("Panic", A, 0)
    ELSE IF CounterOf(A[accounts[1]]) \div WITHDRAWAL_PERCENTAGE = 0
    THEN Ret("InsufficientFunds", A, 0)
    ELSE withdraw_move(A, accounts[1], accounts[2], CounterOf(A[accounts[1]]),
                       CounterOf(A[accounts[1]]) \div WITHDRAWAL_PERCENTAGE)

\* withdraw that tests the amount for zero after the clamp instead of before it
withdraw_zero_after_clamp(A, accounts, signers) ==
    IF Len(accounts) < 2
    THEN Ret("NotEnoughAccountKeys", A, 0)
    ELSE IF A[accounts[1]].owner # ProgramId
    THEN Ret("IncorrectProgramId", A, 0)
    ELSE IF Len(A[accounts[1]].data) < U64Bytes
    THEN Ret("Panic", A, 0)
    ELSE IF Min(CounterOf(A[accounts[1]]) \div WITHDRAWAL_PERCENTAGE, A[accounts[1]].lamports) = 0
    THEN Ret("InsufficientFunds", A, 0)
    ELSE withdraw_move(A, accounts[1], accounts[2], CounterOf(A[accounts[1]]),
                       CounterOf(A[accounts[1]]) \div WITHDRAWAL_PERCENTAGE)

\* pub fn withdraw; signers are the accounts whose AccountInfo has is_signer
\* set, which the function never reads
withdraw(A, accounts, signers) ==
    IF Len(accounts) < 2
    THEN Ret("NotEnoughAccountKeys", A, 0)
    ELSE LET deposit_account == accounts[1]
             recipient == accounts[2]
         IN IF A[deposit_account].owner # ProgramId
            THEN Ret("IncorrectProgramId", A, 0)
            ELSE IF Len(A[deposit_account].data) < U64Bytes
            THEN Ret("Panic", A, 0)
            ELSE LET total_deposited == CounterOf(A[deposit_account])
                     withdrawal_amount == total_deposited \div WITHDRAWAL_PERCENTAGE
                 IN IF withdrawal_amount = 0
                    THEN Ret("InsufficientFunds", A, 0)
                    ELSE withdraw_move(A, deposit_account, recipient,
                                       total_deposited, withdrawal_amount)

----------------------------------------------------------------------------
(* The instruction wire format and the dispatcher                          *)

\* BorshSerialize of TransferInstruction: the variant's index, then its payload
EncodeDeposit(amount) == <<0>> \o ToLeBytes(amount)

EncodeWithdrawal == <<1>>

\* try_from_slice that reads a variant and ignores what follows it, and takes
\* any index but 0 for the withdrawal
try_from_slice_lenient(input) ==
    IF Len(input) = 0
    THEN [ok |-> FALSE, variant |-> "none", amount |-> 0]
    ELSE IF input[1] = 0
    THEN IF Len(input) >= 1 + U64Bytes
         THEN [ok |-> TRUE, variant |-> "DepositInstruction",
               amount |-> FromLeBytes(SubSeq(input, 2, 1 + U64Bytes))]
         ELSE [ok |-> FALSE, variant |-> "none", amount |-> 0]
    ELSE [ok |-> TRUE, variant |-> "WithdrawalInstruction", amount |-> 0]

\* TransferInstruction::try_from_slice: the variant's index, its payload, and
\* nothing after it
try_from_slice(input) ==
    IF Len(input) = 0
    THEN [ok |-> FALSE, variant |-> "none", amount |-> 0]
    ELSE IF input[1] = 0
    THEN IF Len(input) = 1 + U64Bytes
         THEN [ok |-> TRUE, variant |-> "DepositInstruction",
               amount |-> FromLeBytes(SubSeq(input, 2, 1 + U64Bytes))]
         ELSE [ok |-> FALSE, variant |-> "none", amount |-> 0]
    ELSE IF input[1] = 1
    THEN IF Len(input) = 1
         THEN [ok |-> TRUE, variant |-> "WithdrawalInstruction", amount |-> 0]
         ELSE [ok |-> FALSE, variant |-> "none", amount |-> 0]
    ELSE [ok |-> FALSE, variant |-> "none", amount |-> 0]

\* pub fn process_instruction: the handler it ran ("none" when decoding failed)
\* and the handler's outcome
process_instruction(A, accounts, signers, input) ==
    LET instruction == try_from_slice(input)
    IN IF ~instruction.ok
       THEN [handler |-> "none", amount |-> 0, out |-> Ret("DecodeError", A, 0)]
       ELSE IF instruction.variant = "DepositInstruction"
       THEN [handler |-> "deposit", amount |-> instruction.amount,
             out |-> deposit(A, accounts, instruction.amount)]
       ELSE [handler |-> "withdraw", amount |-> 0, out |-> withdraw(A, accounts, signers)]

\* The execution environment's part in an invocation: an instruction that
\* returns an error, or that has written to the data of an account its program
\* does not own, commits none of its mutations.
Commit(A, out) ==
    IF out.result # "Ok"
    THEN Ret(out.result, A, 0)
    ELSE IF \E k \in Keys : out.accts[k].owner # ProgramId /\ out.accts[k].data # A[k].data
    THEN Ret("ExternalAccountDataModified", A, 0)
    ELSE out

----------------------------------------------------------------------------
(* Inputs                                                                  *)

Amounts == {0, 7, 100, 40000, 60000}

ExternalAmounts == {100, 40000}

ForeignCounters == {7, 100}

DepositLists == {<<"payer", "custody", SystemAccount>>,
                 <<"payer", "foreign", SystemAccount>>,
                 <<"payer", "custody">>}

WithdrawLists == {<<d, r>> : d \in {"custody", "foreign"},
                             r \in {"payer", "recipient", "custody"}}
                 \cup {<<"custody">>}

\* no bytes, an unknown index, a short payload, bytes after the instruction
MalformedInputs == {<<>>, <<2>>, <<0, 1, 0>>, <<1, 0>>, EncodeDeposit(100) \o <<0>>}

\* the accounts that signed the transaction
SignerSets == {{"payer"}, {"recipient"}}

----------------------------------------------------------------------------
(* The state machine                                                       *)

\* an address nothing has used: no lamports, no data, owned by the system program
Fresh(acct) == acct.lamports = 0 /\ acct.data = <<>> /\ acct.owner = SystemProgramId

\* a custody account: owned by this program, holding a counter
Custody(acct) == acct.owner = ProgramId /\ Len(acct.data) = 8

NoInvocation(op) ==
    [op |-> op, accounts |-> <<>>, input |-> <<>>, amount |-> 0,
     result |-> "Ok", moved |-> 0]

Init ==
    /\ \E c \in ForeignCounters :
         accts = [k \in Keys |->
                    IF k = "payer"
                    THEN [lamports |-> PayerFunds, owner |-> SystemProgramId, data |-> <<>>]
                    ELSE IF k = "foreign"
                    THEN [lamports |-> ForeignFunds, owner |-> OtherProgramId,
                          data |-> ToLeBytes(c)]
                    ELSE [lamports |-> 0, owner |-> SystemProgramId, data |-> <<>>]]
    /\ overflow_checks \in BOOLEAN
    /\ last = NoInvocation("init")
    /\ pre = accts
    /\ sumDeposits = 0
    /\ sumWithdrawn = 0
    /\ steps = 0

\* One invocation of the program: process_instruction on the accounts and the
\* instruction bytes of a transaction signed by signers, then the commit.
Apply(accounts, signers, input) ==
    /\ \E p \in {process_instruction(accts, accounts, signers, input)} :
       \E r \in {Commit(accts, p.out)} :
          /\ accts' = r.accts
          /\ last' = [op |-> p.handler, accounts |-> accounts, input |-> input,
                      amount |-> p.amount, result |-> r.result, moved |-> r.moved]
          /\ sumDeposits' =
               IF p.handler = "deposit" /\ r.result = "Ok" /\ accounts[2] = "custody"
               THEN sumDeposits + p.amount ELSE sumDeposits
          /\ sumWithdrawn' =
               IF p.handler = "withdraw" /\ r.result = "Ok" /\ accounts[1] = "custody"
               THEN sumWithdrawn + r.moved ELSE sumWithdrawn
    /\ pre' = accts
    /\ UNCHANGED overflow_checks

\* an invocation counted against the bound on the length of a behaviour
Invoke(accounts, signers, input) ==
    /\ steps < MaxSteps
    /\ Apply(accounts, signers, input)
    /\ steps' = steps + 1

Deposit ==
    \E accounts \in DepositLists \cup {<<"custody", "recipient">>}, amount \in Amounts :
        Invoke(accounts, {"payer"}, EncodeDeposit(amount))

Withdraw ==
    \E accounts \in WithdrawLists \cup {<<"payer", "custody", SystemAccount>>},
       signers \in SignerSets :
        Invoke(accounts, signers, EncodeWithdrawal)

Malformed ==
    \E accounts \in {<<"payer", "custody", SystemAccount>>, <<"custody", "recipient">>},
       input \in MalformedInputs :
        Invoke(accounts, {"payer"}, input)

\* The ledger outside this program: lamports moved between the custody address
\* and another account by other means than this program's handlers.
ExternalTransfer ==
    \E from \in {"payer", "custody"}, to \in {"payer", "custody"}, n \in ExternalAmounts :
        /\ steps < MaxSteps
        /\ from # to
        /\ accts[from].lamports >= n
        /\ accts' = [accts EXCEPT ![from].lamports = @ - n, ![to].lamports = @ + n]
        /\ last' = NoInvocation("external")
        /\ pre' = accts
        /\ steps' = steps + 1
        /\ UNCHANGED <<overflow_checks, sumDeposits, sumWithdrawn>>

Next == Deposit \/ Withdraw \/ Malformed \/ ExternalTransfer

Spec == Init /\ [][Next]_vars

\* Withdraw naming a Recipient other than the deposit account
WithdrawToOther ==
    \E accounts \in {l \in WithdrawLists : Len(l) = 2 /\ l[2] # l[1]}, signers \in SignerSets :
        Invoke(accounts, signers, EncodeWithdrawal)

\* The program with nothing else touching the custody balance: no external
\* transfer, and no Withdraw that names the custody account as its Recipient.
NextClosed == Deposit \/ WithdrawToOther \/ Malformed

SpecClosed == Init /\ [][NextClosed]_vars

\* amounts of the one Deposit that opens a custody account to be drained
DrainAmounts == {0, 7, 10, 100}

\* the first and only Deposit into the custody account
DrainDeposit ==
    /\ Fresh(accts["custody"])
    /\ \E amount \in DrainAmounts :
         Apply(<<"payer", "custody", SystemAccount>>, {"payer"}, EncodeDeposit(amount))
    /\ UNCHANGED steps

\* one of the repeated Withdraws from the custody account; the number of them
\* is not bounded
DrainWithdraw ==
    /\ Custody(accts["custody"])
    /\ \E r \in {"recipient", "custody"}, signers \in SignerSets :
         Apply(<<"custody", r>>, signers, EncodeWithdrawal)
    /\ UNCHANGED steps

NextDrain == DrainDeposit \/ DrainWithdraw

\* One Deposit, then Withdraws for ever: the held balance starts above the
\* counter and nothing else touches the account.  Withdraws keep being
\* invoked, which is the fairness stated.
SpecDrain == Init /\ [][NextDrain]_vars /\ WF_vars(DrainDeposit) /\ WF_vars(DrainWithdraw)

TypeOK ==
    /\ \A k \in Keys : /\ accts[k].lamports \in 0..(U64Modulus - 1)
                       /\ Len(accts[k].data) \in {0, DEPOSIT_ACCOUNT_SIZE}
                       /\ \A i \in 1..Len(accts[k].data) : accts[k].data[i] \in 0..(ByteBase - 1)
    /\ steps \in 0..MaxSteps

----------------------------------------------------------------------------
(* Properties                                                              *)

\* the last step was a Withdraw that was given its two accounts
IsWithdraw == last.op = "withdraw" /\ Len(last.accounts) >= 2

WDep == last.accounts[1]

WRcp == last.accounts[2]

\* the last step was a Deposit that was given its three accounts
IsDeposit == last.op = "deposit" /\ Len(last.accounts) >= 3

DPayer == last.accounts[1]

DDep == last.accounts[2]



\* the case of C1: a successful Withdraw from counter >= 10 with the share held
WithdrawOfShare ==
    /\ IsWithdraw
    /\ last.result = "Ok"
    /\ Custody(pre[WDep])
    /\ CounterOf(pre[WDep]) >= 10
    /\ pre[WDep].lamports >= CounterOf(pre[WDep]) \div 10

\* moved lamports leave the custody account, reach the recipient and leave the counter
MovedExactly(w) ==
    /\ last.moved = w
    /\ CounterOf(accts[WDep]) = CounterOf(pre[WDep]) - w
    /\ accts[WDep].lamports = pre[WDep].lamports - w
    /\ accts[WRcp].lamports = pre[WRcp].lamports + w

\* C1 (as amended): a successful Withdraw on a program-owned custody account
\* with counter c >= 10 and held balance >= floor(c/10), to a Recipient other
\* than the custody account itself, moves exactly floor(c/10): the counter and
\* the custody balance go down by it and the Recipient's balance goes up by it.
C1_WithdrawMovesTenth ==
    (WithdrawOfShare /\ WRcp # WDep) => MovedExactly(CounterOf(pre[WDep]) \div 10)

\* C1 as stated: the same for any Recipient account, the custody account included.
C1_AnyRecipient ==
    WithdrawOfShare => MovedExactly(CounterOf(pre[WDep]) \div 10)

C1_Witness ==
    /\ WithdrawOfShare
    /\ WRcp = "recipient"
    /\ CounterOf(pre[WDep]) = 100
    /\ last.moved = 10
    /\ CounterOf(accts[WDep]) = 90

\* the case of C2: a Deposit into an unused address by a payer holding the
\* rent and the amount
DepositIntoFresh ==
    /\ IsDeposit
    /\ Fresh(pre[DDep])
    /\ pre[DPayer].lamports >= RentMinimum + last.amount

\* C2: Deposit(A) on a fresh custody account, with a Payer holding at least
\* rentMinimum + A, succeeds and leaves the account created (8 bytes, owned by
\* the program) with counter = A and held balance = rentMinimum + A, and the
\* Payer's balance reduced by rentMinimum + A.
C2_FirstDeposit ==
    DepositIntoFresh =>
        /\ last.result = "Ok"
        /\ Custody(accts[DDep])
        /\ CounterOf(accts[DDep]) = last.amount
        /\ accts[DDep].lamports = RentMinimum + last.amount
        /\ accts[DPayer].lamports = pre[DPayer].lamports - (RentMinimum + last.amount)

C2_Witness ==
    /\ DepositIntoFresh
    /\ last.amount = 100
    /\ last.result = "Ok"
    /\ CounterOf(accts[DDep]) = 100

\* C3: each successful Deposit(A) on an initialized account with counter c
\* leaves counter c + A, the true sum, also when it exceeds the range of the
\* stored counter.
C3_DepositAddsTrueSum ==
    (IsDeposit /\ last.result = "Ok" /\ Custody(pre[DDep])) =>
        CounterOf(accts[DDep]) = CounterOf(pre[DDep]) + last.amount

\* the case of C4: a successful Withdraw when the custody account holds less
\* than the tenth of its counter
WithdrawClamped ==
    /\ IsWithdraw
    /\ last.result = "Ok"
    /\ Custody(pre[WDep])
    /\ pre[WDep].lamports < CounterOf(pre[WDep]) \div 10

\* C4 (as amended): if the custody account's held balance is less than
\* floor(counter/10) at the time of Withdraw and the Recipient is another
\* account, exactly the held balance is transferred to the Recipient, the
\* custody balance becomes 0, and the counter is decremented by the
\* transferred amount, not by floor(counter/10).
C4_ClampToBalance ==
    (WithdrawClamped /\ WRcp # WDep) =>
        /\ MovedExactly(pre[WDep].lamports)
        /\ accts[WDep].lamports = 0

\* C4 as stated: the same whoever the Recipient is.
C4_ClampAnyRecipient ==
    WithdrawClamped =>
        /\ MovedExactly(pre[WDep].lamports)
        /\ accts[WDep].lamports = 0

C4_Witness ==
    /\ WithdrawClamped
    /\ WRcp = "recipient"
    /\ CounterOf(pre[WDep]) = 100
    /\ pre[WDep].lamports = 5
    /\ last.moved = 5
    /\ CounterOf(accts[WDep]) = 95

\* C5: Withdraw on a program-owned custody account whose counter is in [0, 9]
\* fails with InsufficientFunds and leaves the counter and every held
\* balance unchanged.
C5_SmallCounterRejected ==
    (IsWithdraw /\ Custody(pre[WDep]) /\ CounterOf(pre[WDep]) \in 0..9) =>
        /\ last.result = "InsufficientFunds"
        /\ accts = pre

C5_Witness ==
    /\ IsWithdraw
    /\ Custody(pre[WDep])
    /\ CounterOf(pre[WDep]) = 7
    /\ pre[WDep].lamports = RentMinimum + 7
    /\ last.result = "InsufficientFunds"

\* C6: Withdraw on an account whose owner is not this program fails with
\* IncorrectProgramId whatever its counter, its data and the balances are (the
\* owner is tested before the counter is read), and leaves every account
\* unchanged.
C6_ForeignOwnerRejected ==
    (IsWithdraw /\ pre[WDep].owner # ProgramId) =>
        /\ last.result = "IncorrectProgramId"
        /\ accts = pre

C6_Witness ==
    /\ IsWithdraw
    /\ WDep = "foreign"
    /\ pre[WDep].owner = OtherProgramId
    /\ CounterOf(pre[WDep]) = 100
    /\ last.result = "IncorrectProgramId"

\* the last step was an invocation of the program
IsInvocation == last.op \in {"deposit", "withdraw", "none"}

\* the case named in C7: a Deposit into an unused address by a payer who holds
\* the rent but not the rent and the amount
DepositTransferFails ==
    /\ IsDeposit
    /\ Fresh(pre[DDep])
    /\ pre[DPayer].lamports >= RentMinimum
    /\ pre[DPayer].lamports < RentMinimum + last.amount

\* C7: every invocation that ends in an error leaves every account (its
\* existence, size, owner, counter and held balance) as it was before the
\* invocation; a Deposit on an uninitialized account whose transfer fails
\* after the allocation succeeded ends in TransferError and leaves the
\* account uninitialized and the Payer's balance intact.
C7_ErrorsChangeNothing ==
    /\ (IsInvocation /\ last.result # "Ok") => accts = pre
    /\ DepositTransferFails => (last.result = "TransferError" /\ accts = pre)

C7_Witness ==
    /\ DepositTransferFails
    /\ last.result = "TransferError"
    /\ Fresh(accts[DDep])
    /\ accts[DPayer].lamports = PayerFunds

\* C8: the custody account's counter equals the sum of the amounts of all
\* successful Deposits minus the sum of the amounts moved by all successful
\* Withdrawals, and is never negative.
C8_CounterIsNetDeposits ==
    Custody(accts["custody"]) =>
        /\ CounterOf(accts["custody"]) = sumDeposits - sumWithdrawn
        /\ CounterOf(accts["custody"]) >= 0

\* instruction bytes of the wire format: index 0 and an 8-byte amount, or index 1 alone
WellFormed(input) ==
    \/ Len(input) = 9 /\ input[1] = 0
    \/ input = <<1>>

\* C9: instruction bytes that are malformed or carry an unrecognized index
\* fail with DecodeError, run neither handler and change no account.
C9_MalformedRejected ==
    (IsInvocation /\ ~WellFormed(last.input)) =>
        /\ last.result = "DecodeError"
        /\ last.op = "none"
        /\ accts = pre

C9_Witness ==
    /\ IsInvocation
    /\ last.input = <<2>>
    /\ last.result = "DecodeError"
    /\ Custody(accts["custody"])

\* what a Withdraw from deposit account d to recipient r, signed by signers,
\* would end in from the current state
WithdrawOutcome(d, r, signers) ==
    LET o == Commit(accts, withdraw(accts, <<d, r>>, signers))
    IN <<o.result, o.moved,
         IF Len(o.accts[d].data) >= 8 THEN CounterOf(o.accts[d]) ELSE 0>>

\* C10: from any state, the outcome of Withdraw (success or error kind, amount
\* transferred, resulting counter) is the same whoever signed the transaction
\* and whichever Recipient is named, the original Payer or not.
C10_OutcomeIgnoresRecipient ==
    \A d \in Keys :
        LET o == WithdrawOutcome(d, "payer", {"payer"})
        IN \A r \in Keys, s \in SignerSets : WithdrawOutcome(d, r, s) = o

C10_Witness ==
    /\ IsWithdraw
    /\ WRcp = "recipient"
    /\ last.result = "Ok"
    /\ last.moved = 10
    /\ WithdrawOutcome("custody", "payer", {"payer"}) = <<"Ok", 9, 81>>
    /\ WithdrawOutcome("custody", "recipient", {"recipient"}) = <<"Ok", 9, 81>>

\* C11: on a program-owned account Withdraw fails with InsufficientFunds if
\* and only if counter < 10, whatever the held balance is: the test is made on
\* floor(counter/10) before the clamp.  With counter >= 10 it succeeds even
\* when the clamped amount is 0 (held balance 0); nothing is then transferred
\* and the counter is unchanged.
C11_ZeroTestBeforeClamp ==
    (IsWithdraw /\ Custody(pre[WDep])) =>
        /\ (last.result = "InsufficientFunds") <=> (CounterOf(pre[WDep]) < 10)
        /\ CounterOf(pre[WDep]) >= 10 => last.result = "Ok"
        /\ (CounterOf(pre[WDep]) >= 10 /\ pre[WDep].lamports = 0) =>
               (last.moved = 0 /\ accts = pre)

C11_Witness ==
    /\ IsWithdraw
    /\ Custody(pre[WDep])
    /\ CounterOf(pre[WDep]) = 95
    /\ pre[WDep].lamports = 0
    /\ last.result = "Ok"
    /\ last.moved = 0

\* the held balances of Payer, custody account and Recipient together
TotalHeld(A) == A["payer"].lamports + A["custody"].lamports + A["recipient"].lamports

\* what the last Deposit took from the Payer: the amount, and the rent when it
\* created the account
DepositCharge == last.amount + (IF data_is_empty(pre[DDep]) THEN RentMinimum ELSE 0)

\* C12: every successful Deposit and every successful Withdraw conserves the
\* total held balance of Payer, custody account and Recipient: Deposit moves
\* exactly amount (plus rentMinimum on first creation) from Payer to the
\* custody account, Withdraw removes from the custody account exactly what it
\* adds to the Recipient, and the total is the same after any sequence of
\* invocations.
C12_BalanceConserved ==
    /\ TotalHeld(accts) = PayerFunds
    /\ (IsDeposit /\ last.result = "Ok") =>
           /\ accts[DPayer].lamports = pre[DPayer].lamports - DepositCharge
           /\ accts[DDep].lamports = pre[DDep].lamports + DepositCharge
    /\ (IsWithdraw /\ last.result = "Ok" /\ WRcp # WDep) =>
           /\ accts[WDep].lamports = pre[WDep].lamports - last.moved
           /\ accts[WRcp].lamports = pre[WRcp].lamports + last.moved
    /\ (IsWithdraw /\ last.result = "Ok" /\ WRcp = WDep) =>
           accts[WDep].lamports = pre[WDep].lamports

C12_Witness ==
    /\ IsWithdraw
    /\ last.result = "Ok"
    /\ last.moved = 5
    /\ WRcp = "recipient"
    /\ accts["recipient"].lamports = 5
    /\ accts["custody"].lamports = 0
    /\ sumDeposits = 100

\* C13: Deposit requests the allocation exactly when the account's data region
\* is empty (a Deposit on an account with data never ends in AllocationError;
\* one on an empty address that already holds lamports always does), so an
\* account is created at most once: once it has data, every step leaves it
\* with the same size and the same owner.
C13_CreatedOnce ==
    /\ \A k \in Keys :
         ~data_is_empty(pre[k]) =>
             /\ Len(accts[k].data) = Len(pre[k].data)
             /\ accts[k].owner = pre[k].owner
    /\ (IsDeposit /\ ~data_is_empty(pre[DDep])) => last.result # "AllocationError"
    /\ (IsDeposit /\ data_is_empty(pre[DDep]) /\ pre[DDep].lamports > 0) =>
           last.result = "AllocationError"
    /\ (IsDeposit /\ last.result = "Ok" /\ data_is_empty(pre[DDep])) => Custody(accts[DDep])

C13_Witness ==
    /\ IsDeposit
    /\ Custody(pre[DDep])
    /\ CounterOf(pre[DDep]) = 90
    /\ last.result = "Ok"
    /\ Custody(accts[DDep])
    /\ CounterOf(accts[DDep]) = 190

\* C14: Deposit with amount 0 is accepted: on an initialized custody account
\* it succeeds and leaves the counter and every held balance unchanged; on an
\* uninitialized address (with a Payer holding the rent) it succeeds and still
\* creates the account, with counter = 0 and held balance = rentMinimum.
C14_ZeroDeposit ==
    /\ (IsDeposit /\ last.amount = 0 /\ Custody(pre[DDep])) =>
           (last.result = "Ok" /\ accts = pre)
    /\ (IsDeposit /\ last.amount = 0 /\ Fresh(pre[DDep])
          /\ pre[DPayer].lamports >= RentMinimum) =>
           /\ last.result = "Ok"
           /\ Custody(accts[DDep])
           /\ CounterOf(accts[DDep]) = 0
           /\ accts[DDep].lamports = RentMinimum
           /\ accts[DPayer].lamports = pre[DPayer].lamports - RentMinimum

\* both cases have happened: the account was created by a Deposit of 0 and a
\* second Deposit of 0 has left it as it was
C14_Witness ==
    /\ IsDeposit
    /\ last.amount = 0
    /\ Custody(pre[DDep])
    /\ last.result = "Ok"
    /\ sumDeposits = 0
    /\ accts[DDep].lamports = RentMinimum
    /\ CounterOf(accts[DDep]) = 0

\* C16 (under SpecClosed: the custody balance is changed only by this
\* program's Deposit and Withdraw, and no Withdraw names the custody account
\* as Recipient; no counter addition then leaves the u64 range): a custody
\* account created by Deposit holds rentMinimum + counter after every
\* invocation, so the clamp of Withdraw never takes effect and the held
\* balance never falls below rentMinimum.
C16_BalanceIsRentPlusCounter ==
    /\ Custody(accts["custody"]) =>
           /\ accts["custody"].lamports = RentMinimum + CounterOf(accts["custody"])
           /\ accts["custody"].lamports >= RentMinimum
    /\ (IsWithdraw /\ last.result = "Ok") =>
           /\ pre[WDep].lamports >= CounterOf(pre[WDep]) \div 10
           /\ last.moved = CounterOf(pre[WDep]) \div 10
    /\ sumDeposits - sumWithdrawn < U64Modulus

C16_Witness ==
    /\ IsWithdraw
    /\ last.result = "Ok"
    /\ last.moved = 19
    /\ CounterOf(accts["custody"]) = 171
    /\ accts["custody"].lamports = RentMinimum + 171

\* C17: in every Withdraw, from any counter and any held balance (values
\* altered externally included), the amount subtracted is at most the counter
\* and at most the custody held balance, so neither subtraction goes below 0.
C17_NoUnderflow ==
    /\ (IsWithdraw /\ last.result = "Ok") =>
           /\ last.moved <= CounterOf(pre[WDep])
           /\ last.moved <= pre[WDep].lamports
           /\ CounterOf(accts[WDep]) = CounterOf(pre[WDep]) - last.moved
    /\ \A k \in Keys : accts[k].lamports >= 0

\* a Withdraw from a balance below the tenth of the counter, after the
\* balance was reduced externally
C17_Witness ==
    /\ IsWithdraw
    /\ last.result = "Ok"
    /\ CounterOf(pre[WDep]) = 40000
    /\ pre[WDep].lamports = 5
    /\ last.moved = 5
    /\ accts[WDep].lamports = 0

\* C19: when the Recipient passed to Withdraw is the custody account itself
\* (program-owned, counter >= 10), Withdraw succeeds, the custody account's
\* held balance is the same after the call as before it, and the counter is
\* still decremented by min(floor(counter/10), held balance).
C19_SelfRecipient ==
    (IsWithdraw /\ WRcp = WDep /\ Custody(pre[WDep]) /\ CounterOf(pre[WDep]) >= 10) =>
        /\ last.result = "Ok"
        /\ accts[WDep].lamports = pre[WDep].lamports
        /\ last.moved = Min(CounterOf(pre[WDep]) \div 10, pre[WDep].lamports)
        /\ CounterOf(accts[WDep]) = CounterOf(pre[WDep]) - last.moved
        /\ \A k \in Keys \ {WDep} : accts[k] = pre[k]

C19_Witness ==
    /\ IsWithdraw
    /\ WRcp = WDep
    /\ last.result = "Ok"
    /\ CounterOf(pre[WDep]) = 100
    /\ last.moved = 10
    /\ CounterOf(accts[WDep]) = 90
    /\ accts[WDep].lamports = RentMinimum + 100

\* every Withdraw from the custody account now fails with InsufficientFunds
\* and the counter is in [1, 9], at 9 if the account was opened with 10 or more
Stuck ==
    /\ Custody(accts["custody"])
    /\ CounterOf(accts["custody"]) \in 1..9
    /\ sumDeposits >= 10 => CounterOf(accts["custody"]) = 9
    /\ \A r \in Keys, s \in SignerSets :
         WithdrawOutcome("custody", r, s)[1] = "InsufficientFunds"

\* C18 (as amended): a successful Withdraw from counter c >= 10 leaves a
\* smaller counter that is still >= 9, so a positive counter never reaches 0
\* through withdrawals; and starting from any positive counter with held
\* balance >= counter and no further Deposits, after finitely many of the
\* repeated Withdraws every further Withdraw fails with InsufficientFunds,
\* with the counter stuck at a value in [1, 9] (exactly 9 if it started >= 10).
C18_DrainsToNine ==
    /\ []((IsWithdraw /\ last.result = "Ok" /\ CounterOf(pre[WDep]) >= 10) =>
            /\ CounterOf(accts[WDep]) >= 9
            /\ CounterOf(accts[WDep]) < CounterOf(pre[WDep]))
    /\ []((Custody(accts["custody"]) /\ CounterOf(accts["custody"]) > 0) => <>[]Stuck)

\* C18 as stated, starting from any counter: whenever Withdraw fails with
\* InsufficientFunds, the counter it is stuck at is in [1, 9].
C18_StuckInOneToNine ==
    (IsWithdraw /\ Custody(pre[WDep]) /\ last.result = "InsufficientFunds") =>
        CounterOf(accts[WDep]) \in 1..9

C18_Witness ==
    /\ IsWithdraw
    /\ last.result = "InsufficientFunds"
    /\ sumDeposits = 100
    /\ sumWithdrawn = 91
    /\ CounterOf(accts["custody"]) = 9
    /\ Stuck

====
